---- MODULE Spec2Model ----
(***************************************************************************)
(* Conversational loan-origination agent: the conversation state machine   *)
(* of app.py, the orchestration pipeline of agents.py and the underwriting *)
(* engine of underwriting.py.                                              *)
(*                                                                         *)
(* Numbers.  Python floats are modelled as fixed-point integers in         *)
(* hundredths: a rate of 12.0 % is 1200, an amount of 10,000 rupees is     *)
(* 1000000, the number 2.5 typed by the user is 250.  Integer fields       *)
(* (tenure_months, credit_score, pre_approved_limit, phone_retry_count)    *)
(* are plain integers.  None is modelled per type: NoNumber for an absent  *)
(* float, NoDict for an absent dict, "None" for an absent status.          *)
(*                                                                         *)
(* Text.  An utterance is a sequence of tokens (lower-case words and       *)
(* numeric literals), a flag saying that the raw text is upper-cased and a *)
(* flag saying that it carries surrounding whitespace.                     *)
(***************************************************************************)
EXTENDS Integers, Sequences, FiniteSets, TLC

VARIABLES conversation_state, collected_data, latest_status, latest_payload,
          phone_retry_count, chat_tail, turn, run_log, rate_asks, uw_context,
          uw_result

vars == <<conversation_state, collected_data, latest_status, latest_payload,
          phone_retry_count, chat_tail, turn, run_log, rate_asks, uw_context,
          uw_result>>

\* -------------------------------------------------------------------------
\* Bounds of the model
\* -------------------------------------------------------------------------
\* phone_retry_count grows without bound in the program; rotated re-prompts
\* are modelled while the counter is below this cap.
MaxRetry == 4
\* the rate requests made in a row are counted up to this cap.
MaxAsks == 7

\* -------------------------------------------------------------------------
\* Representation of Python values
\* -------------------------------------------------------------------------
Scale == 100
NoNumber == -1
NoDict == <<>>

Put(d, k, v) == (k :> v) @@ d
Pop(d, k) == [f \in DOMAIN d \ {k} |-> d[f]]
Has(d, k) == k \in DOMAIN d
\* dict.get(k) for number-valued keys: NoNumber when the key is absent
GetNum(d, k) == IF k \in DOMAIN d THEN d[k] ELSE NoNumber

\* -------------------------------------------------------------------------
\* Program constants (src/app.py:15-24)
\* -------------------------------------------------------------------------
DEFAULT_RATE == 12 * Scale
MIN_LOAN == 10000
MIN_TENURE == 6
MAX_TENURE == 84
PHONE_PROMPTS == <<"phone_prompt_0", "phone_prompt_1", "phone_prompt_2">>

\* -------------------------------------------------------------------------
\* Text model
\* -------------------------------------------------------------------------
Comma == 10
Dot == 11
W(s) == [w |-> s, d |-> <<>>]
N(ds) == [w |-> "", d |-> ds]
Text(toks) == [toks |-> toks, caps |-> FALSE, pad |-> FALSE]
Raw(toks, caps, pad) == [toks |-> toks, caps |-> caps, pad |-> pad]

\* str.strip() and str.lower()
Strip(m) == [m EXCEPT !.pad = FALSE]
Lower(m) == [m EXCEPT !.caps = FALSE]

\* Words of the vocabulary that contain a keyword as a proper substring
\* (Python's `token in lowered` is a substring test, not a word test).
\* The keywords are lower-case, so upper-cased raw text contains none.
Embedded ==
  { <<"years", "year">> }
HasSub(w, t) == w = t \/ <<w, t>> \in Embedded

\* `t in lowered` for a one-word keyword t
ContainsWord(m, t) ==
  ~m.caps /\ \E i \in 1..Len(m.toks) : HasSub(m.toks[i].w, t)
\* `t in lowered` for a two-word keyword "a b"
ContainsPair(m, a, b) ==
  /\ ~m.caps
  /\ \E i \in 1..(Len(m.toks) - 1) : m.toks[i].w = a /\ m.toks[i + 1].w = b

\* set(re.sub(r"[^a-z\s]", " ", text.lower()).split()): the word tokens;
\* numeric literals, and upper-case letters, are blanked out.
WordSet(m) ==
  IF m.caps THEN {}
  ELSE {m.toks[i].w : i \in {j \in 1..Len(m.toks) : m.toks[j].w # ""}}

\* -------------------------------------------------------------------------
\* Parsing helpers of app.py
\* -------------------------------------------------------------------------
RECURSIVE DigitsVal(_)
DigitsVal(ds) ==
  IF ds = <<>> THEN 0
  ELSE 10 * DigitsVal(SubSeq(ds, 1, Len(ds) - 1)) + ds[Len(ds)]

RemoveCommas(ds) == SelectSeq(ds, LAMBDA c : c # Comma)
DotCount(ds) == Cardinality({i \in 1..Len(ds) : ds[i] = Dot})
DotPos(ds) == CHOOSE i \in 1..Len(ds) : ds[i] = Dot

\* float(raw) in hundredths; NoNumber stands for the ValueError that
\* extract_number turns into None (a literal with more than one dot).
\* Literals carry at most two fractional digits.
ParseFloat(raw) ==
  IF DotCount(raw) > 1 THEN NoNumber
  ELSE IF DotCount(raw) = 0 THEN DigitsVal(raw) * Scale
  ELSE LET p == DotPos(raw)
           ip == SubSeq(raw, 1, p - 1)
           fp == SubSeq(raw, p + 1, Len(raw))
           f2 == IF Len(fp) = 0 THEN 0
                 ELSE IF Len(fp) = 1 THEN 10 * fp[1]
                 ELSE 10 * fp[1] + fp[2]
       IN DigitsVal(ip) * Scale + f2

\* re.findall(r"\d[\d,\.]*", text): the numeric literals, in order
NumberMatches(m) == SelectSeq(m.toks, LAMBDA t : t.d # <<>>)

extract_number(m) ==
  LET matches == NumberMatches(m)
  IN IF matches = <<>> THEN NoNumber
     ELSE ParseFloat(RemoveCommas(matches[1].d))

\* re.sub(r"\D", "", message): every digit of the message, in order
RECURSIVE DigitsOf(_)
DigitsOf(toks) ==
  IF toks = <<>> THEN <<>>
  ELSE SelectSeq(Head(toks).d, LAMBDA c : c < Comma) \o DigitsOf(Tail(toks))

LastTen(ds) == SubSeq(ds, Len(ds) - 9, Len(ds))

\* Python's round(): half to even, on a value in hundredths
RoundHalfEven(h) ==
  LET q == h \div Scale
      r == h % Scale
  IN IF 2 * r < Scale THEN q
     ELSE IF 2 * r > Scale THEN q + 1
     ELSE IF q % 2 = 0 THEN q ELSE q + 1

\* parse_tenure: None is modelled as NoNumber
parse_tenure(m) ==
  LET number == extract_number(m)
  IN IF number = NoNumber THEN NoNumber
     ELSE LET months == IF ContainsWord(Lower(m), "year")
                        THEN RoundHalfEven(number * 12)
                        ELSE RoundHalfEven(number)
          IN IF months > 0 THEN months ELSE NoNumber

is_positive_response(m) ==
  WordSet(Lower(m)) \cap {"yes", "y", "sure", "okay", "ok", "yeah", "yup",
                          "proceed", "go", "affirmative"} # {}

is_negative_response(m) ==
  WordSet(Lower(m)) \cap {"no", "n", "not", "later", "skip", "nah"} # {}

is_greeting(m) ==
  WordSet(Lower(m)) \cap {"hi", "hello", "hey", "heya", "hiya", "greetings"} # {}

wants_lower_rate(m) ==
  LET lowered == Lower(m)
  IN /\ \E t \in {"rate", "interest", "roi", "percentage"} : ContainsWord(lowered, t)
     /\ \E t \in {"lower", "less", "reduce", "drop", "discount", "better"} :
          ContainsWord(lowered, t)

wants_amount_adjustment(m) ==
  LET lowered == Lower(m)
      amount_terms == {"loan", "amount", "principal", "ticket", "disburse",
                       "sanction", "lakh", "lac", "crore", "limit"}
      adjust_terms == {"less", "lower", "reduce", "drop", "smaller", "instead",
                       "maybe", "around", "about", "approve", "let's", "do"}
  IN IF extract_number(m) = NoNumber THEN FALSE
     ELSE IF ContainsWord(lowered, "instead") THEN TRUE
     ELSE /\ \E t \in amount_terms : ContainsWord(lowered, t)
          /\ \/ \E t \in adjust_terms : ContainsWord(lowered, t)
             \/ ContainsPair(lowered, "can", "you")
             \/ ContainsPair(lowered, "could", "you")

\* message.strip().lower() in {"restart", "reset", "start over", "new"}
RestartTokens ==
  { Text(<<W("restart")>>), Text(<<W("reset")>>),
    Text(<<W("start"), W("over")>>), Text(<<W("new")>>) }
\* variant: the message is compared as typed
IsRestart_as_typed(m) == m \in RestartTokens

IsRestart(m) == Lower(Strip(m)) \in RestartTokens

\* -------------------------------------------------------------------------
\* Data Provider (tools.py) over a fixed record set
\* -------------------------------------------------------------------------
PhoneA == <<0, 0, 0, 0, 0, 0, 0, 0, 3, 6>>
PhoneB == <<0, 0, 0, 0, 0, 0, 0, 0, 0, 5>>
PhoneC == <<0, 0, 0, 0, 0, 0, 0, 0, 0, 3>>
PhoneUnknown == <<0, 0, 0, 0, 0, 0, 0, 0, 0, 0>>

\* sample_data.json: {phone, name, address, city, credit_score,
\* pre_approved_limit, monthly_salary} per customer
Customers ==
  << [phone |-> PhoneA, name |-> "Asha", address |-> "addr_a", city |-> "Pune",
      credit_score |-> 750, pre_approved_limit |-> 500000,
      monthly_salary |-> 60000],
     [phone |-> PhoneB, name |-> "Bala", address |-> "addr_b", city |-> "Delhi",
      credit_score |-> 650, pre_approved_limit |-> 300000,
      monthly_salary |-> 40000],
     [phone |-> PhoneC, name |-> "Chitra", address |-> "addr_c", city |-> "Kochi",
      credit_score |-> 820, pre_approved_limit |-> 200000,
      monthly_salary |-> 90000] >>

\* the first record with the phone, or None
crm_get_customer_by_phone(phone) ==
  LET hits == {i \in 1..Len(Customers) : Customers[i].phone = phone}
  IN IF hits = {} THEN NoDict
     ELSE Customers[CHOOSE i \in hits : \A j \in hits : i <= j]

credit_bureau_get_score(phone) ==
  LET cust == crm_get_customer_by_phone(phone)
  IN IF cust = NoDict THEN 0
     ELSE IF Has(cust, "credit_score") THEN cust.credit_score ELSE 0

offer_mart_get_preapproved_limit(phone) ==
  LET cust == crm_get_customer_by_phone(phone)
  IN IF cust = NoDict THEN 0
     ELSE IF Has(cust, "pre_approved_limit") THEN cust.pre_approved_limit ELSE 0

\* -------------------------------------------------------------------------
\* Underwriting Engine (underwriting.py)
\* -------------------------------------------------------------------------
\* r = annual_rate_pct / 12 / 100.0 is the fraction rate / RateDen, with
\* rate in hundredths of a percent.
RateDen == 12 * 100 * Scale

\* floor(a * b / d) without leaving the 32-bit range
MulDiv(a, b, d) == (a \div d) * b + ((a % d) * b) \div d

\* floor(x * y / RateDen) for fixed-point factors x, y < 2^20, without
\* leaving the 32-bit range: y is split into y = yh * 1024 + yl
MulFix(x, y) ==
  LET yh == y \div 1024
      yl == y % 1024
      q == (x * yh) \div RateDen
      r == (x * yh) % RateDen
  IN q * 1024 + (r * 1024 + x * yl) \div RateDen

\* (1 + r)**n as a fixed-point number with denominator RateDen, by squaring
RECURSIVE Growth(_, _)
Growth(rate, n) ==
  IF n = 0 THEN RateDen
  ELSE LET h == Growth(rate, n \div 2)
           sq == MulFix(h, h)
       IN IF n % 2 = 1 THEN MulFix(sq, RateDen + rate) ELSE sq

\* P*r*(1+r)^n / ((1+r)^n - 1)  =  P*r + P*r / ((1+r)^n - 1)
compute_emi(principal, annual_rate_pct, tenure_months) ==
  LET n == tenure_months
  IN IF annual_rate_pct = 0 THEN principal \div n
     ELSE LET g == Growth(annual_rate_pct, n)
          IN MulDiv(principal, annual_rate_pct, RateDen)
             + MulDiv(principal, annual_rate_pct, g - RateDen)

Result(decision, details) == [decision |-> decision, details |-> details]

\* Variants of evaluate_application with one rule altered, used to test that
\* the verified properties depend on the rules:
\*   "limit_first"   the pre-approved-limit rule is tried before the score rule
\*   "default_rate"  the instant approval prices the EMI at the default rate
\*   "salary_sign"   a missing salary is not taken as "no salary declared"
\*   "no_ceiling"    the salary band has no 2x ceiling
evaluate_variant(context, v) ==
  LET loan_amount == context.loan_amount
      tenure == context.tenure_months
      annual_rate == IF Has(context, "annual_rate_pct")
                     THEN context.annual_rate_pct ELSE 12 * Scale
      salary == IF Has(context, "monthly_salary")
                THEN context.monthly_salary ELSE 0
      credit_score == context.credit_score
      pre_limit == context.pre_approved_limit
  IN IF credit_score < 700
        /\ ~(v = "limit_first" /\ loan_amount <= pre_limit * Scale)
     THEN Result("REJECT", [reason |-> "Credit score below 700"])
     ELSE IF loan_amount <= pre_limit * Scale
     THEN Result("APPROVE_INSTANT",
                 [emi |-> compute_emi(loan_amount,
                                      IF v = "default_rate" THEN 12 * Scale
                                      ELSE annual_rate,
                                      tenure)])
     ELSE IF loan_amount <= 2 * pre_limit * Scale \/ v = "no_ceiling"
     THEN LET emi == compute_emi(loan_amount, annual_rate, tenure)
          IN IF (IF v = "salary_sign" THEN salary < 0 ELSE salary <= 0)
             THEN Result("REQUIRE_SALARY",
                         [reason |-> "Need salary slip to evaluate EMI threshold",
                          emi |-> emi])
             ELSE IF 2 * emi <= salary
             THEN Result("APPROVE_INSTANT", [emi |-> emi])
             ELSE Result("REJECT",
                         [reason |-> "EMI exceeds 50% of salary", emi |-> emi])
     ELSE Result("REJECT",
                 [reason |-> "Loan amount exceeds 2x pre-approved limit"])

evaluate_limit_first(context) == evaluate_variant(context, "limit_first")
evaluate_default_rate(context) == evaluate_variant(context, "default_rate")
evaluate_salary_sign(context) == evaluate_variant(context, "salary_sign")
evaluate_no_ceiling(context) == evaluate_variant(context, "no_ceiling")

evaluate_application(context) ==
  LET loan_amount == context.loan_amount
      tenure == context.tenure_months
      annual_rate == IF Has(context, "annual_rate_pct")
                     THEN context.annual_rate_pct ELSE 12 * Scale
      salary == IF Has(context, "monthly_salary")
                THEN context.monthly_salary ELSE 0
      credit_score == context.credit_score
      pre_limit == context.pre_approved_limit
  IN IF credit_score < 700
     THEN Result("REJECT", [reason |-> "Credit score below 700"])
     ELSE IF loan_amount <= pre_limit * Scale
     THEN Result("APPROVE_INSTANT",
                 [emi |-> compute_emi(loan_amount, annual_rate, tenure)])
     ELSE IF loan_amount <= 2 * pre_limit * Scale
     THEN LET emi == compute_emi(loan_amount, annual_rate, tenure)
          IN IF salary <= 0
             THEN Result("REQUIRE_SALARY",
                         [reason |-> "Need salary slip to evaluate EMI threshold",
                          emi |-> emi])
             ELSE IF 2 * emi <= salary
             THEN Result("APPROVE_INSTANT", [emi |-> emi])
             ELSE Result("REJECT",
                         [reason |-> "EMI exceeds 50% of salary", emi |-> emi])
     ELSE Result("REJECT",
                 [reason |-> "Loan amount exceeds 2x pre-approved limit"])

\* -------------------------------------------------------------------------
\* Tasks and master controller (agents.py)
\* -------------------------------------------------------------------------
task_verify(phone) ==
  LET cust == crm_get_customer_by_phone(phone)
  IN IF cust = NoDict
     THEN [verified |-> FALSE, name |-> "", address |-> ""]
     ELSE [verified |-> TRUE, name |-> cust.name, address |-> cust.address]

\* details.get("reason") / details.get("emi"): None when absent
task_underwrite(context) ==
  LET r == evaluate_application(context)
  IN [decision |-> r.decision,
      reason |-> IF Has(r.details, "reason") THEN r.details.reason ELSE "None",
      emi |-> GetNum(r.details, "emi")]

\* generate_sanction_letter writes the letter and returns its path; the
\* letter is modelled by the fields it is given.
generate_sanction_letter(out, customer_name, phone, loan_amount, tenure_months, annual_rate_pct, emi) ==
  [path |-> out,
   letter |-> [customer_name |-> customer_name, phone |-> phone,
               loan_amount |-> loan_amount, tenure_months |-> tenure_months,
               annual_rate_pct |-> annual_rate_pct, emi |-> emi]]

task_sanction_pdf(context) ==
  generate_sanction_letter(
    <<"sanction", context.customer_phone>>,
    context.customer_name, context.customer_phone, context.loan_amount,
    context.tenure_months,
    IF Has(context, "annual_rate_pct") THEN context.annual_rate_pct ELSE 12 * Scale,
    IF Has(context, "emi") THEN context.emi ELSE 0)

\* variant: the letter is rendered while the salary is still asked for
conclude_orchestrate_render_pending(c2, uw) ==
  LET decision == uw.decision
      c3 == Put(c2, "emi", uw.emi)
  IN IF decision = "REJECT"
     THEN [status |-> "REJECT", payload |-> [reason |-> uw.reason],
           context |-> c3, underwritten |-> [context |-> c2, uw |-> uw],
           letter |-> NoDict]
     ELSE IF decision = "REQUIRE_SALARY"
     THEN [status |-> "REQUIRE_SALARY",
           payload |-> [message |-> "Please upload/provide salary to proceed",
                        emi |-> uw.emi],
           context |-> c3, underwritten |-> [context |-> c2, uw |-> uw],
           letter |-> task_sanction_pdf(c3).letter]
     ELSE LET pdf == task_sanction_pdf(c3)
          IN [status |-> "APPROVED",
              payload |-> [emi |-> c3.emi, pdf_path |-> pdf.path],
              context |-> c3, underwritten |-> [context |-> c2, uw |-> uw],
              letter |-> pdf.letter]

\* master_orchestrate from the underwriting outcome on: c2 is the context
\* handed to task_underwrite and uw what it returned.
conclude_orchestrate(c2, uw) ==
  LET decision == uw.decision
      c3 == Put(c2, "emi", uw.emi)
  IN IF decision = "REJECT"
     THEN [status |-> "REJECT", payload |-> [reason |-> uw.reason],
           context |-> c3, underwritten |-> [context |-> c2, uw |-> uw],
           letter |-> NoDict]
     ELSE IF decision = "REQUIRE_SALARY"
     THEN [status |-> "REQUIRE_SALARY",
           payload |-> [message |-> "Please upload/provide salary to proceed",
                        emi |-> uw.emi],
           context |-> c3, underwritten |-> [context |-> c2, uw |-> uw],
           letter |-> NoDict]
     ELSE LET pdf == task_sanction_pdf(c3)
          IN [status |-> "APPROVED",
              payload |-> [emi |-> c3.emi, pdf_path |-> pdf.path],
              context |-> c3, underwritten |-> [context |-> c2, uw |-> uw],
              letter |-> pdf.letter]

\* master_orchestrate once the customer is verified: the bureau score and the
\* pre-approved limit are put into the context, which is then underwritten.
underwrite_verified(c1) ==
  LET score == credit_bureau_get_score(c1.customer_phone)
      pre == offer_mart_get_preapproved_limit(c1.customer_phone)
      c2 == Put(Put(c1, "credit_score", score), "pre_approved_limit", pre)
  IN conclude_orchestrate(c2, task_underwrite(c2))

\* Returns the status and payload, the context as the run leaves it, the
\* underwriting call made (None if none) and the letter rendered (None if none).
master_orchestrate(context) ==
  LET verify == task_verify(context.customer_phone)
  IN IF ~verify.verified
     THEN [status |-> "KYC_FAILED",
           payload |-> [message |-> "KYC verification failed. Please check phone."],
           context |-> context, underwritten |-> NoDict, letter |-> NoDict]
     ELSE underwrite_verified(Put(context, "customer_name", verify.name))

\* -------------------------------------------------------------------------
\* Session helpers (app.py).  A session value s holds st.session_state:
\* state = conversation_state, data = collected_data, status = latest_status,
\* payload = latest_payload, retry = phone_retry_count; out is the part of
\* chat_history appended by the current turn and runs the pipeline
\* invocations of the current turn.
\* -------------------------------------------------------------------------
reset_conversation ==
  [state |-> "COLLECT_PHONE",
   data |-> [annual_rate_pct |-> DEFAULT_RATE, customer_profile |-> NoDict],
   status |-> "None",
   payload |-> NoDict,
   retry |-> 0,
   out |-> <<"welcome">>,
   runs |-> <<>>]

add_assistant_message(s, message) == [s EXCEPT !.out = Append(@, message)]

\* variant: the retry counter is not advanced
next_phone_prompt_stuck(s) ==
  LET idx == s.retry
      message == PHONE_PROMPTS[(idx % Len(PHONE_PROMPTS)) + 1]
  IN [s EXCEPT !.out = Append(@, message)]

next_phone_prompt(s) ==
  LET idx == s.retry
      message == PHONE_PROMPTS[(idx % Len(PHONE_PROMPTS)) + 1]
  IN [s EXCEPT !.retry = idx + 1, !.out = Append(@, message)]

\* variant: every tier is granted the floor of the tier above
compute_best_rate_tier_up(profile) ==
  LET score == IF Has(profile, "credit_score") THEN profile.credit_score ELSE 0
  IN IF score >= 760 THEN 975
     ELSE IF score >= 720 THEN 1025
     ELSE IF score >= 680 THEN 1075
     ELSE 1125

\* profile.get("credit_score", 0) on `profile or {}`
compute_best_rate(profile) ==
  LET score == IF Has(profile, "credit_score") THEN profile.credit_score ELSE 0
  IN IF score >= 800 THEN 975
     ELSE IF score >= 760 THEN 1025
     ELSE IF score >= 720 THEN 1075
     ELSE IF score >= 680 THEN 1125
     ELSE 1175

Max(a, b) == IF a >= b THEN a ELSE b

\* `x` is truthy for an optional float: neither None nor 0
Truthy(x) == x # NoNumber /\ x # 0

Run(s, missing, context, r) ==
  [pre_state |-> s.state, missing |-> missing, context |-> context,
   status |-> r.status, payload |-> r.payload,
   underwritten |-> r.underwritten, letter |-> r.letter]

NotRun ==
  [status |-> "None", payload |-> NoDict, underwritten |-> NoDict,
   letter |-> NoDict]

\* variant: a failed verification leaves the phone on file
report_outcome_keep_phone(s, context, r) ==
  LET s1 == [add_assistant_message(s, "taking_forward")
               EXCEPT !.status = r.status, !.payload = r.payload,
                      !.runs = Append(@, Run(s, <<>>, context, r))]
  IN IF r.status = "KYC_FAILED"
     THEN [add_assistant_message(s1, "kyc_no_match")
             EXCEPT !.state = "COLLECT_PHONE",
                    !.data = Put(Pop(s1.data, "customer_name"),
                                 "customer_profile", NoDict)]
     ELSE IF r.status = "REQUIRE_SALARY"
     THEN [add_assistant_message(
             add_assistant_message(s1, "need_salary_figure"),
             "ask_monthly_income")
             EXCEPT !.state = "COLLECT_SALARY"]
     ELSE IF r.status = "REJECT"
     THEN [add_assistant_message(
             add_assistant_message(s1, "declined"), "offer_restart")
             EXCEPT !.state = "DONE"]
     ELSE IF r.status = "APPROVED"
     THEN [add_assistant_message(
             add_assistant_message(
               add_assistant_message(s1, "all_checks_passed"),
               "sanction_letter_drafted"),
             "congratulations")
             EXCEPT !.state = "DONE"]
     ELSE [add_assistant_message(s1, "unexpected_status")
             EXCEPT !.state = "DONE"]

\* run_master_pipeline from the result of master_orchestrate on: the status
\* and payload are stored and the outcome is reported.
report_outcome(s, context, r) ==
  LET s1 == [add_assistant_message(s, "taking_forward")
               EXCEPT !.status = r.status, !.payload = r.payload,
                      !.runs = Append(@, Run(s, <<>>, context, r))]
  IN IF r.status = "KYC_FAILED"
     THEN [add_assistant_message(s1, "kyc_no_match")
             EXCEPT !.state = "COLLECT_PHONE",
                    !.data = Put(Pop(Pop(s1.data, "customer_phone"),
                                     "customer_name"),
                                 "customer_profile", NoDict)]
     ELSE IF r.status = "REQUIRE_SALARY"
     THEN [add_assistant_message(
             add_assistant_message(s1, "need_salary_figure"),
             "ask_monthly_income")
             EXCEPT !.state = "COLLECT_SALARY"]
     ELSE IF r.status = "REJECT"
     THEN [add_assistant_message(
             add_assistant_message(s1, "declined"), "offer_restart")
             EXCEPT !.state = "DONE"]
     ELSE IF r.status = "APPROVED"
     THEN [add_assistant_message(
             add_assistant_message(
               add_assistant_message(s1, "all_checks_passed"),
               "sanction_letter_drafted"),
             "congratulations")
             EXCEPT !.state = "DONE"]
     ELSE [add_assistant_message(s1, "unexpected_status")
             EXCEPT !.state = "DONE"]

\* the context run_master_pipeline builds from collected_data
pipeline_context(data) ==
  LET base == [customer_phone |-> data.customer_phone,
               loan_amount |-> data.loan_amount,
               tenure_months |-> data.tenure_months,
               annual_rate_pct |-> IF Has(data, "annual_rate_pct")
                                   THEN data.annual_rate_pct
                                   ELSE DEFAULT_RATE]
  IN IF Has(data, "monthly_salary")
     THEN Put(base, "monthly_salary", data.monthly_salary)
     ELSE base

orchestrate_and_report(s, context) ==
  report_outcome(s, context, master_orchestrate(context))

\* variant: a run that finds a field missing clears the latest result
run_master_pipeline_clear_latest(s) ==
  LET data == s.data
      required == <<"customer_phone", "loan_amount", "tenure_months">>
      missing == SelectSeq(required, LAMBDA field : ~Has(data, field))
  IN IF missing # <<>>
     THEN [add_assistant_message(s, "still_need_fields")
             EXCEPT !.status = "None", !.payload = NoDict,
                    !.runs = Append(@, Run(s, missing, NoDict, NotRun))]
     ELSE orchestrate_and_report(s, pipeline_context(data))

run_master_pipeline(s) ==
  LET data == s.data
      required == <<"customer_phone", "loan_amount", "tenure_months">>
      missing == SelectSeq(required, LAMBDA field : ~Has(data, field))
  IN IF missing # <<>>
     THEN [add_assistant_message(s, "still_need_fields")
             EXCEPT !.runs = Append(@, Run(s, missing, NoDict, NotRun))]
     ELSE orchestrate_and_report(s, pipeline_context(data))

Handled(s) == [handled |-> TRUE, s |-> s]
NotHandled(s) == [handled |-> FALSE, s |-> s]

\* `data.get("customer_profile") or {}`
ProfileOf(data) ==
  IF Has(data, "customer_profile") THEN data.customer_profile ELSE NoDict

\* variant: a request without a rate asks for a quarter point less
negotiate_rate_quarter_point(s, message, state) ==
  LET data == s.data
      current_rate == IF Has(data, "annual_rate_pct")
                      THEN data.annual_rate_pct ELSE DEFAULT_RATE
      best_rate == compute_best_rate(ProfileOf(data))
      parsed == extract_number(message)
      requested_rate == IF Truthy(parsed) /\ parsed < 5 * Scale
                        THEN NoNumber ELSE parsed
      proposed_rate == IF Truthy(requested_rate)
                       THEN Max(best_rate, requested_rate)
                       ELSE Max(best_rate, current_rate - Scale \div 4)
  IN IF state = "DONE"
     THEN add_assistant_message(s, "restart_to_revisit_rate")
     ELSE IF proposed_rate < current_rate
     THEN [add_assistant_message(s, "pitch_rate")
             EXCEPT !.data = Put(data, "annual_rate_pct", proposed_rate)]
     ELSE add_assistant_message(s, "already_at_rate")

\* variant: the rate branch does not check for a wrapped-up ticket
negotiate_rate_any_state(s, message, state) ==
  LET data == s.data
      current_rate == IF Has(data, "annual_rate_pct")
                      THEN data.annual_rate_pct ELSE DEFAULT_RATE
      best_rate == compute_best_rate(ProfileOf(data))
      parsed == extract_number(message)
      requested_rate == IF Truthy(parsed) /\ parsed < 5 * Scale
                        THEN NoNumber ELSE parsed
      proposed_rate == IF Truthy(requested_rate)
                       THEN Max(best_rate, requested_rate)
                       ELSE Max(best_rate, current_rate - Scale \div 2)
  IN IF proposed_rate < current_rate
     THEN [add_assistant_message(s, "pitch_rate")
             EXCEPT !.data = Put(data, "annual_rate_pct", proposed_rate)]
     ELSE add_assistant_message(s, "already_at_rate")

\* try_handle_negotiation, the rate-reduction branch
negotiate_rate(s, message, state) ==
  LET data == s.data
      current_rate == IF Has(data, "annual_rate_pct")
                      THEN data.annual_rate_pct ELSE DEFAULT_RATE
      best_rate == compute_best_rate(ProfileOf(data))
      parsed == extract_number(message)
      requested_rate == IF Truthy(parsed) /\ parsed < 5 * Scale
                        THEN NoNumber ELSE parsed
      proposed_rate == IF Truthy(requested_rate)
                       THEN Max(best_rate, requested_rate)
                       ELSE Max(best_rate, current_rate - Scale \div 2)
  IN IF state = "DONE"
     THEN add_assistant_message(s, "restart_to_revisit_rate")
     ELSE IF proposed_rate < current_rate
     THEN [add_assistant_message(s, "pitch_rate")
             EXCEPT !.data = Put(data, "annual_rate_pct", proposed_rate)]
     ELSE add_assistant_message(s, "already_at_rate")

\* variant: a request for a larger amount is not declined
negotiate_amount_no_decline(s, message, state) ==
  LET data == s.data
      new_amount == extract_number(message)
  IN IF state = "DONE"
     THEN add_assistant_message(s, "restart_for_ticket_size")
     ELSE IF ~Truthy(new_amount) \/ new_amount <= 0
     THEN add_assistant_message(s, "amount_not_caught")
     ELSE
       LET s1 == [add_assistant_message(s, "reshape_request")
                    EXCEPT !.data = Put(data, "loan_amount", new_amount)]
       IN IF state \in {"READY_TO_RUN"}
          THEN run_master_pipeline(add_assistant_message(s1, "refresh_checks"))
          ELSE s1

\* variant: the revised amount is never taken to the pipeline
negotiate_amount_no_rerun(s, message, state) ==
  LET data == s.data
      current_amount == data.loan_amount
      new_amount == extract_number(message)
  IN IF state = "DONE"
     THEN add_assistant_message(s, "restart_for_ticket_size")
     ELSE IF ~Truthy(new_amount) \/ new_amount <= 0
     THEN add_assistant_message(s, "amount_not_caught")
     ELSE IF new_amount >= current_amount
     THEN add_assistant_message(s, "keep_current_ask")
     ELSE [add_assistant_message(s, "reshape_request")
             EXCEPT !.data = Put(data, "loan_amount", new_amount)]

\* variant: the revised amount is taken to the pipeline in every open state
negotiate_amount_always_rerun(s, message, state) ==
  LET data == s.data
      current_amount == data.loan_amount
      new_amount == extract_number(message)
  IN IF state = "DONE"
     THEN add_assistant_message(s, "restart_for_ticket_size")
     ELSE IF ~Truthy(new_amount) \/ new_amount <= 0
     THEN add_assistant_message(s, "amount_not_caught")
     ELSE IF new_amount >= current_amount
     THEN add_assistant_message(s, "keep_current_ask")
     ELSE
       LET s1 == [add_assistant_message(s, "reshape_request")
                    EXCEPT !.data = Put(data, "loan_amount", new_amount)]
       IN run_master_pipeline(add_assistant_message(s1, "refresh_checks"))

\* try_handle_negotiation, the amount-adjustment branch
negotiate_amount(s, message, state) ==
  LET data == s.data
      current_amount == data.loan_amount
      new_amount == extract_number(message)
  IN IF state = "DONE"
     THEN add_assistant_message(s, "restart_for_ticket_size")
     ELSE IF ~Truthy(new_amount) \/ new_amount <= 0
     THEN add_assistant_message(s, "amount_not_caught")
     ELSE IF new_amount >= current_amount
     THEN add_assistant_message(s, "keep_current_ask")
     ELSE
       LET s1 == [add_assistant_message(s, "reshape_request")
                    EXCEPT !.data = Put(data, "loan_amount", new_amount)]
       IN IF state \in {"READY_TO_RUN"}
          THEN run_master_pipeline(add_assistant_message(s1, "refresh_checks"))
          ELSE s1

\* variant: the amount intent is checked before the rate intent
try_handle_negotiation_amount_first(s, message, state) ==
  IF ~Has(s.data, "customer_phone") THEN NotHandled(s)
  ELSE IF Truthy(GetNum(s.data, "loan_amount")) /\ wants_amount_adjustment(message)
  THEN Handled(negotiate_amount(s, message, state))
  ELSE IF wants_lower_rate(message)
  THEN Handled(negotiate_rate(s, message, state))
  ELSE NotHandled(s)

\* variant: the resolver acts whether or not a phone is on file
try_handle_negotiation_no_phone_check(s, message, state) ==
  IF wants_lower_rate(message)
  THEN Handled(negotiate_rate(s, message, state))
  ELSE IF Truthy(GetNum(s.data, "loan_amount")) /\ wants_amount_adjustment(message)
  THEN Handled(negotiate_amount(s, message, state))
  ELSE NotHandled(s)

try_handle_negotiation(s, message, state) ==
  IF ~Has(s.data, "customer_phone") THEN NotHandled(s)
  ELSE IF wants_lower_rate(message)
  THEN Handled(negotiate_rate(s, message, state))
  ELSE IF Truthy(GetNum(s.data, "loan_amount")) /\ wants_amount_adjustment(message)
  THEN Handled(negotiate_amount(s, message, state))
  ELSE NotHandled(s)

\* variant: the tentative phone is kept when the verification fails
collect_phone_keep_unverified(s, message) ==
  LET digits == DigitsOf(message.toks)
  IN IF digits = <<>>
     THEN IF is_greeting(message)
          THEN [add_assistant_message(s, "nice_to_meet_you") EXCEPT !.retry = 0]
          ELSE IF is_negative_response(message)
          THEN add_assistant_message(s, "we_can_pause")
          ELSE next_phone_prompt(s)
     ELSE IF Len(digits) < 10
     THEN next_phone_prompt(add_assistant_message(s, "digits_missing"))
     ELSE
       LET phone == LastTen(digits)
           s1 == [add_assistant_message(s, "verifying_phone")
                    EXCEPT !.data = Put(s.data, "customer_phone", phone),
                           !.retry = 0]
           verification == task_verify(phone)
       IN IF ~verification.verified
          THEN add_assistant_message(s1, "customer_not_found")
          ELSE
            LET profile == crm_get_customer_by_phone(phone)
            IN [add_assistant_message(
                  add_assistant_message(s1, "identity_confirmed"),
                  "ask_loan_amount")
                  EXCEPT !.data = Put(Put(s1.data, "customer_name",
                                          verification.name),
                                      "customer_profile", profile),
                         !.state = "COLLECT_LOAN"]

\* handle_user_message, state COLLECT_PHONE
collect_phone(s, message) ==
  LET digits == DigitsOf(message.toks)
  IN IF digits = <<>>
     THEN IF is_greeting(message)
          THEN [add_assistant_message(s, "nice_to_meet_you") EXCEPT !.retry = 0]
          ELSE IF is_negative_response(message)
          THEN add_assistant_message(s, "we_can_pause")
          ELSE next_phone_prompt(s)
     ELSE IF Len(digits) < 10
     THEN next_phone_prompt(add_assistant_message(s, "digits_missing"))
     ELSE
       LET phone == LastTen(digits)
           s1 == [add_assistant_message(s, "verifying_phone")
                    EXCEPT !.data = Put(s.data, "customer_phone", phone),
                           !.retry = 0]
           verification == task_verify(phone)
       IN IF ~verification.verified
          THEN [add_assistant_message(s1, "customer_not_found")
                  EXCEPT !.data = Pop(s1.data, "customer_phone")]
          ELSE
            LET profile == crm_get_customer_by_phone(phone)
            IN [add_assistant_message(
                  add_assistant_message(s1, "identity_confirmed"),
                  "ask_loan_amount")
                  EXCEPT !.data = Put(Put(s1.data, "customer_name",
                                          verification.name),
                                      "customer_profile", profile),
                         !.state = "COLLECT_LOAN"]

\* variant: any amount that parses is accepted
collect_loan_no_minimum(s, message) ==
  LET amount == extract_number(message)
  IN IF amount = NoNumber
     THEN add_assistant_message(s, "specify_loan_amount")
     ELSE
       LET profile == ProfileOf(s.data)
           limit == IF Has(profile, "pre_approved_limit")
                    THEN profile.pre_approved_limit ELSE 0
           s1 == [s EXCEPT !.data = Put(s.data, "loan_amount", amount)]
       IN IF limit # 0 /\ amount > limit * Scale
          THEN [add_assistant_message(
                  add_assistant_message(s1, "above_pre_approved"),
                  "ask_tenure_spread")
                  EXCEPT !.state = "COLLECT_TENURE"]
          ELSE [add_assistant_message(s1, "ask_tenure")
                  EXCEPT !.state = "COLLECT_TENURE"]

\* handle_user_message, state COLLECT_LOAN
collect_loan(s, message) ==
  LET amount == extract_number(message)
  IN IF amount = NoNumber
     THEN add_assistant_message(s, "specify_loan_amount")
     ELSE IF amount < MIN_LOAN * Scale
     THEN add_assistant_message(s, "minimum_loan_amount")
     ELSE
       LET profile == ProfileOf(s.data)
           limit == IF Has(profile, "pre_approved_limit")
                    THEN profile.pre_approved_limit ELSE 0
           s1 == [s EXCEPT !.data = Put(s.data, "loan_amount", amount)]
       IN IF limit # 0 /\ amount > limit * Scale
          THEN [add_assistant_message(
                  add_assistant_message(s1, "above_pre_approved"),
                  "ask_tenure_spread")
                  EXCEPT !.state = "COLLECT_TENURE"]
          ELSE [add_assistant_message(s1, "ask_tenure")
                  EXCEPT !.state = "COLLECT_TENURE"]

\* variant: any positive tenure is accepted
collect_tenure_any_length(s, message) ==
  LET tenure == parse_tenure(message)
  IN IF tenure = NoNumber
     THEN add_assistant_message(s, "share_tenure")
     ELSE [add_assistant_message(s, "ask_salary_option")
             EXCEPT !.data = Put(s.data, "tenure_months", tenure),
                    !.state = "ASK_SALARY_OPTION"]

\* handle_user_message, state COLLECT_TENURE
collect_tenure(s, message) ==
  LET tenure == parse_tenure(message)
  IN IF tenure = NoNumber
     THEN add_assistant_message(s, "share_tenure")
     ELSE IF tenure < MIN_TENURE \/ tenure > MAX_TENURE
     THEN add_assistant_message(s, "tenure_out_of_range")
     ELSE [add_assistant_message(s, "ask_salary_option")
             EXCEPT !.data = Put(s.data, "tenure_months", tenure),
                    !.state = "ASK_SALARY_OPTION"]

\* variant: an answer that is neither yes nor no is taken as a yes
ask_salary_option_default_yes(s, message) ==
  IF is_positive_response(message)
  THEN [add_assistant_message(s, "ask_salary") EXCEPT !.state = "COLLECT_SALARY"]
  ELSE IF is_negative_response(message)
  THEN run_master_pipeline(
         [add_assistant_message(s, "proceed_without_salary")
            EXCEPT !.state = "READY_TO_RUN"])
  ELSE [add_assistant_message(s, "ask_salary") EXCEPT !.state = "COLLECT_SALARY"]

\* handle_user_message, state ASK_SALARY_OPTION
ask_salary_option(s, message) ==
  IF is_positive_response(message)
  THEN [add_assistant_message(s, "ask_salary") EXCEPT !.state = "COLLECT_SALARY"]
  ELSE IF is_negative_response(message)
  THEN run_master_pipeline(
         [add_assistant_message(s, "proceed_without_salary")
            EXCEPT !.state = "READY_TO_RUN"])
  ELSE add_assistant_message(s, "neither_yes_nor_no")

\* variant: the salary is noted and the run is left to the next utterance
collect_salary_defer_run(s, message) ==
  LET salary == extract_number(message)
  IN IF salary = NoNumber \/ salary <= 0
     THEN add_assistant_message(s, "salary_numeric")
     ELSE [add_assistant_message(s, "salary_noted")
             EXCEPT !.data = Put(s.data, "monthly_salary", salary),
                    !.state = "READY_TO_RUN"]

\* handle_user_message, state COLLECT_SALARY
collect_salary(s, message) ==
  LET salary == extract_number(message)
  IN IF salary = NoNumber \/ salary <= 0
     THEN add_assistant_message(s, "salary_numeric")
     ELSE run_master_pipeline(
            [add_assistant_message(s, "salary_noted")
               EXCEPT !.data = Put(s.data, "monthly_salary", salary),
                      !.state = "READY_TO_RUN"])

\* One turn: the session after handle_user_message(message)
handle_user_message(s, message) ==
  IF IsRestart(message) THEN reset_conversation
  ELSE
  LET state == s.state
      neg == try_handle_negotiation(s, message, state)
  IN
  IF neg.handled THEN neg.s
  ELSE IF state = "DONE" THEN add_assistant_message(s, "all_done")
  ELSE IF state = "COLLECT_PHONE" THEN collect_phone(s, message)
  ELSE IF state = "COLLECT_LOAN" THEN collect_loan(s, message)
  ELSE IF state = "COLLECT_TENURE" THEN collect_tenure(s, message)
  ELSE IF state = "ASK_SALARY_OPTION" THEN ask_salary_option(s, message)
  ELSE IF state = "COLLECT_SALARY" THEN collect_salary(s, message)
  ELSE IF state = "READY_TO_RUN" THEN run_master_pipeline(s)
  ELSE add_assistant_message(s, "not_sure")

\* -------------------------------------------------------------------------
\* The utterances offered to the session
\* -------------------------------------------------------------------------
URestart == Text(<<W("restart")>>)
UResetLoud == Raw(<<W("reset")>>, TRUE, TRUE)
UStartOver == Raw(<<W("start"), W("over")>>, TRUE, FALSE)
UNew == Text(<<W("new")>>)
UNewLoan == Text(<<W("new"), W("loan")>>)
UHi == Text(<<W("hi")>>)
UNo == Text(<<W("no")>>)
UYes == Text(<<W("yes")>>)
UPhoneA == Text(<<N(<<0, 0, 0, 0, 0, 0, 0, 0, 3, 6>>)>>)
UPhoneB == Text(<<N(<<0, 0, 0, 0, 0, 0, 0, 0, 0, 5>>)>>)
UPhoneC == Text(<<N(<<0, 0, 0, 0, 0, 0, 0, 0, 0, 3>>)>>)
UPhoneUnknown == Text(<<N(<<0, 0, 0, 0, 0, 0, 0, 0, 0, 0>>)>>)
U400000 == Text(<<N(<<4, 0, 0, 0, 0, 0>>)>>)
U700000 == Text(<<N(<<7, 0, 0, 10, 0, 0, 0>>)>>)
U60000 == Text(<<N(<<6, 0, 0, 0, 0>>)>>)
U36 == Text(<<N(<<3, 6>>)>>)
UYears == Text(<<N(<<3>>), W("years")>>)
ULowerRate == Text(<<W("lower"), W("the"), W("rate")>>)
URateTo1050 == Text(<<W("reduce"), W("interest"), W("to"), N(<<1, 0, 11, 5>>)>>)
URateTo9 == Text(<<W("reduce"), W("rate"), W("to"), N(<<9>>)>>)
URateNoise == Text(<<W("better"), W("rate"), N(<<3>>)>>)
UAmount300000 == Text(<<W("make"), W("the"), W("loan"), W("amount"), N(<<3, 0, 0, 0, 0, 0>>), W("instead")>>)
UAmount5000 == Text(<<W("reduce"), W("loan"), W("to"), N(<<5, 0, 0, 0>>)>>)
UAmountZero == Text(<<W("reduce"), W("loan"), W("amount"), W("to"), N(<<0>>)>>)
UAmount900000 == Text(<<N(<<9, 0, 0, 0, 0, 0>>), W("instead")>>)
UBoth == Text(<<W("lower"), W("the"), W("rate"), W("and"), W("reduce"), W("loan"), W("to"), N(<<3, 0, 0, 0, 0, 0>>)>>)

Utterances ==
  { URestart, UResetLoud, UStartOver, UNew,
    UNewLoan, UHi, UNo, UYes,
    UPhoneA, UPhoneB, UPhoneC, UPhoneUnknown,
    U400000, U700000, U60000, U36,
    UYears, ULowerRate, URateTo1050, URateTo9,
    URateNoise, UAmount300000, UAmount5000, UAmountZero,
    UAmount900000, UBoth }

\* -------------------------------------------------------------------------
\* The session as a state machine
\* -------------------------------------------------------------------------
Session ==
  [state |-> conversation_state, data |-> collected_data,
   status |-> latest_status, payload |-> latest_payload,
   retry |-> phone_retry_count, out |-> <<>>, runs |-> <<>>]

\* turn records the utterance handled last, the session it was handled in
\* and the pipeline invocations it made.
TurnOf(kind, m, s, runs) ==
  [kind |-> kind, msg |-> m, state |-> s.state, data |-> s.data,
   status |-> s.status, payload |-> s.payload, retry |-> s.retry,
   runs |-> runs]

\* run_log records the statuses master_orchestrate returned since the
\* session was last reset, in order.
Returned(runs) ==
  [i \in 1..Len(SelectSeq(runs, LAMBDA r : r.missing = <<>>)) |->
     SelectSeq(runs, LAMBDA r : r.missing = <<>>)[i].status]

InstallSession(kind, m, t) ==
  /\ t.retry <= MaxRetry
  /\ run_log' = IF kind \in {"restart", "button"} THEN <<>>
                ELSE run_log \o Returned(t.runs)
  /\ conversation_state' = t.state
  /\ collected_data' = t.data
  /\ latest_status' = t.status
  /\ latest_payload' = t.payload
  /\ phone_retry_count' = t.retry
  /\ chat_tail' = t.out
  /\ turn' = TurnOf(kind, m, Session, t.runs)
  /\ UNCHANGED <<uw_context, uw_result>>

\* rate_asks counts the rate requests of the specification SpecRate; the
\* other specifications leave it at 0.
Install(kind, m, t) ==
  /\ InstallSession(kind, m, t)
  /\ UNCHANGED rate_asks

NoMessage == Text(<<>>)

Init ==
  /\ conversation_state = reset_conversation.state
  /\ collected_data = reset_conversation.data
  /\ latest_status = reset_conversation.status
  /\ latest_payload = reset_conversation.payload
  /\ phone_retry_count = reset_conversation.retry
  /\ chat_tail = reset_conversation.out
  /\ turn = TurnOf("start", NoMessage, reset_conversation, <<>>)
  /\ run_log = <<>>
  /\ rate_asks = 0
  /\ uw_context = NoDict
  /\ uw_result = NoDict

\* handle_user_message on a reserved restart token
RestartTurn ==
  \E m \in Utterances :
    /\ IsRestart(m)
    /\ Install("restart", m, handle_user_message(Session, m))

\* handle_user_message on an utterance the Negotiation Resolver acts on
NegotiationTurn ==
  \E m \in Utterances :
    /\ ~IsRestart(m)
    /\ try_handle_negotiation(Session, m, conversation_state).handled
    /\ Install("negotiation", m, handle_user_message(Session, m))

\* handle_user_message on an utterance left to the state dispatch
DispatchTurn ==
  \E m \in Utterances :
    /\ ~IsRestart(m)
    /\ ~try_handle_negotiation(Session, m, conversation_state).handled
    /\ Install("dispatch", m, handle_user_message(Session, m))

\* the sidebar's "Reset conversation" button
SidebarReset ==
  Install("button", NoMessage, reset_conversation)

Next == RestartTurn \/ NegotiationTurn \/ DispatchTurn \/ SidebarReset

Spec == Init /\ [][Next]_vars

\* -------------------------------------------------------------------------
\* The Underwriting Engine on its own: evaluate_application applied to
\* application contexts drawn from bounded sets
\* -------------------------------------------------------------------------
UWScores == {650, 699, 700, 750}
UWLimits == {0, 200000, 500000}
\* amounts in hundredths: at, just above and far from 1x and 2x of the limits
UWAmounts ==
  {1, 20000000, 20000001, 40000000, 40000001, 50000000, 100000000, 100000001}
UWTenures == {1, 6, 36, 84}
UWRates == {0, 975, 1200}
\* NoNumber: no monthly_salary in the context; a declared salary is positive
UWSalaries == {NoNumber, 1, 2000000, 6000000, 40000002}

UWContext(score, limit, amount, tenure, rate, salary) ==
  LET base == [customer_phone |-> PhoneA, loan_amount |-> amount,
               tenure_months |-> tenure, annual_rate_pct |-> rate,
               credit_score |-> score, pre_approved_limit |-> limit]
  IN IF salary = NoNumber THEN base ELSE Put(base, "monthly_salary", salary)

UWContexts ==
  { UWContext(sc, li, am, te, ra, sa) :
      sc \in UWScores, li \in UWLimits, am \in UWAmounts, te \in UWTenures,
      ra \in UWRates, sa \in UWSalaries }

InitUW ==
  /\ conversation_state = reset_conversation.state
  /\ collected_data = reset_conversation.data
  /\ latest_status = reset_conversation.status
  /\ latest_payload = reset_conversation.payload
  /\ phone_retry_count = reset_conversation.retry
  /\ chat_tail = reset_conversation.out
  /\ turn = TurnOf("start", NoMessage, reset_conversation, <<>>)
  /\ run_log = <<>>
  /\ rate_asks = 0
  /\ uw_context \in UWContexts
  /\ uw_result = NoDict

Evaluate ==
  /\ uw_result = NoDict
  /\ uw_result' = evaluate_application(uw_context)
  /\ UNCHANGED <<conversation_state, collected_data, latest_status,
                 latest_payload, phone_retry_count, chat_tail, turn, run_log,
                 rate_asks, uw_context>>

NextUW == Evaluate

SpecUW == InitUW /\ [][NextUW]_vars

Evaluated == uw_result # NoDict
DeclaredSalary == Has(uw_context, "monthly_salary")
ContextEmi ==
  compute_emi(uw_context.loan_amount, uw_context.annual_rate_pct,
              uw_context.tenure_months)
InSalaryBand ==
  /\ uw_context.credit_score >= 700
  /\ uw_context.loan_amount > uw_context.pre_approved_limit * Scale
  /\ uw_context.loan_amount <= 2 * uw_context.pre_approved_limit * Scale

\* C1: a context with credit_score < 700 is rejected with reason "Credit
\* score below 700", whatever its amount, tenure, rate, salary and limit.
C1_LowScoreRejected ==
  (Evaluated /\ uw_context.credit_score < 700)
    => uw_result = Result("REJECT", [reason |-> "Credit score below 700"])

\* a low-score context that the limit rule alone would approve
C1_Witness ==
  /\ Evaluated
  /\ uw_context.credit_score < 700
  /\ uw_context.loan_amount <= uw_context.pre_approved_limit * Scale
  /\ DeclaredSalary
  /\ uw_result.decision = "REJECT"

\* C2: with credit_score >= 700 and 0 < loan_amount <= pre_approved_limit the
\* decision is APPROVE_INSTANT and carries the EMI of the context's amount,
\* rate and tenure, with or without a declared salary.
C2_WithinLimitApproved ==
  (/\ Evaluated
   /\ uw_context.credit_score >= 700
   /\ 0 < uw_context.loan_amount
   /\ uw_context.loan_amount <= uw_context.pre_approved_limit * Scale)
    => uw_result = Result("APPROVE_INSTANT", [emi |-> ContextEmi])

\* an approval at exactly the limit, at a negotiated rate, without a salary
C2_Witness ==
  /\ Evaluated
  /\ uw_context.credit_score >= 700
  /\ uw_context.loan_amount = uw_context.pre_approved_limit * Scale
  /\ uw_context.annual_rate_pct = 975
  /\ ~DeclaredSalary
  /\ uw_result.decision = "APPROVE_INSTANT"
  /\ uw_result.details.emi > 0

\* C3: with credit_score >= 700 and limit < loan_amount <= 2*limit: without a
\* salary the decision is REQUIRE_SALARY carrying the EMI; with a salary and
\* EMI <= half the salary it is APPROVE_INSTANT; with a salary and EMI above
\* half the salary it is REJECT "EMI exceeds 50% of salary" carrying the EMI.
C3_SalaryBand ==
  (Evaluated /\ InSalaryBand)
    => /\ ~DeclaredSalary
          => /\ uw_result.decision = "REQUIRE_SALARY"
             /\ uw_result.details.emi = ContextEmi
       /\ (DeclaredSalary /\ 2 * ContextEmi <= uw_context.monthly_salary)
          => uw_result = Result("APPROVE_INSTANT", [emi |-> ContextEmi])
       /\ (DeclaredSalary /\ 2 * ContextEmi > uw_context.monthly_salary)
          => uw_result = Result("REJECT",
                                [reason |-> "EMI exceeds 50% of salary",
                                 emi |-> ContextEmi])

\* the three outcomes of the band, the approval at EMI = exactly half the salary
C3_WitnessRequire ==
  Evaluated /\ InSalaryBand /\ ~DeclaredSalary
    /\ uw_result.decision = "REQUIRE_SALARY"
C3_WitnessApprove ==
  Evaluated /\ InSalaryBand /\ DeclaredSalary
    /\ 2 * ContextEmi = uw_context.monthly_salary
    /\ uw_result.decision = "APPROVE_INSTANT"
C3_WitnessReject ==
  Evaluated /\ InSalaryBand /\ DeclaredSalary
    /\ uw_context.loan_amount = 2 * uw_context.pre_approved_limit * Scale
    /\ uw_result.decision = "REJECT"

\* C4: a loan_amount above 2*pre_approved_limit is rejected whatever the
\* score, tenure, rate and salary; with credit_score >= 700 the reason is
\* "Loan amount exceeds 2x pre-approved limit".
C4_AboveTwiceLimitRejected ==
  (Evaluated /\ uw_context.loan_amount > 2 * uw_context.pre_approved_limit * Scale)
    => /\ uw_result.decision = "REJECT"
       /\ uw_context.credit_score >= 700
          => uw_result = Result("REJECT",
               [reason |-> "Loan amount exceeds 2x pre-approved limit"])

\* just above twice the limit, good score, a salary that would carry the EMI
C4_Witness ==
  /\ Evaluated
  /\ uw_context.credit_score >= 700
  /\ uw_context.loan_amount = 2 * uw_context.pre_approved_limit * Scale + 1
  /\ uw_context.pre_approved_limit > 0
  /\ DeclaredSalary
  /\ 2 * ContextEmi <= uw_context.monthly_salary
  /\ uw_result.decision = "REJECT"

\* -------------------------------------------------------------------------
\* One turn of a session that is in READY_TO_RUN when the utterance arrives.
\* handle_user_message sets READY_TO_RUN before it calls run_master_pipeline,
\* so a run that leaves early (missing fields) or is interrupted by an
\* exception of the renderer or the file system leaves the session there.
\* The Data Provider reads its records at every call: a phone verified
\* earlier is not in the records any more when the run re-checks it
\* (PhoneUnknown, with the profile FormerCustomer on file).
\* -------------------------------------------------------------------------
FormerCustomer ==
  [phone |-> PhoneUnknown, name |-> "Dev", address |-> "addr_d", city |-> "Agra",
   credit_score |-> 780, pre_approved_limit |-> 400000, monthly_salary |-> 70000]

\* NoDict: no customer_phone on file
RunPhones == {NoDict, PhoneA, PhoneB, PhoneC, PhoneUnknown}
\* amounts and salaries in hundredths; NoNumber: the field is not on file
RunAmounts == {NoNumber, 40000000, 70000000}
RunTenures == {NoNumber, 36}
RunSalaries == {NoNumber, 6000000}
RunRates == {DEFAULT_RATE, 1175}
\* the status and payload left by the run before, if any
RunPriors ==
  { [status |-> "None", payload |-> NoDict],
    [status |-> "REQUIRE_SALARY",
     payload |-> [message |-> "Please upload/provide salary to proceed",
                  emi |-> 2325449]] }

OnFile(d, k, v) == IF v = NoNumber THEN d ELSE Put(d, k, v)

RunData(phone, amount, tenure, salary, rate) ==
  LET profile == IF phone = NoDict THEN NoDict
                 ELSE IF phone = PhoneUnknown THEN FormerCustomer
                 ELSE crm_get_customer_by_phone(phone)
      base == [annual_rate_pct |-> rate, customer_profile |-> profile]
      known == IF phone = NoDict THEN base
               ELSE Put(Put(base, "customer_phone", phone),
                        "customer_name", profile.name)
  IN OnFile(OnFile(OnFile(known, "loan_amount", amount),
                   "tenure_months", tenure),
            "monthly_salary", salary)

InitRun ==
  /\ conversation_state = "READY_TO_RUN"
  /\ collected_data \in { RunData(ph, am, te, sa, ra) :
                             ph \in RunPhones, am \in RunAmounts,
                             te \in RunTenures, sa \in RunSalaries,
                             ra \in RunRates }
  /\ \E p \in RunPriors : latest_status = p.status /\ latest_payload = p.payload
  /\ phone_retry_count = 0
  /\ chat_tail = <<>>
  /\ turn = TurnOf("start", NoMessage, Session, <<>>)
  /\ run_log = IF latest_status = "None" THEN <<>> ELSE <<latest_status>>
  /\ rate_asks = 0
  /\ uw_context = NoDict
  /\ uw_result = NoDict

TurnKind(s, m) ==
  IF IsRestart(m) THEN "restart"
  ELSE IF try_handle_negotiation(s, m, s.state).handled THEN "negotiation"
  ELSE "dispatch"

\* handle_user_message on the utterance that finds the session in READY_TO_RUN
ReadyTurn ==
  /\ turn.kind = "start"
  /\ \E m \in Utterances :
       Install(TurnKind(Session, m), m, handle_user_message(Session, m))

NextRun == ReadyTurn

SpecRun == InitRun /\ [][NextRun]_vars

\* -------------------------------------------------------------------------
\* Rate requests made in a row: a session with a verified profile, in a
\* state after COLLECT_PHONE and before the decision, at the base rate, to
\* which the user keeps sending rate requests that state no rate.
\* -------------------------------------------------------------------------
\* the fields on file when a state is entered
EnteredData(state, phone) ==
  RunData(phone,
          IF state = "COLLECT_LOAN" THEN NoNumber ELSE 40000000,
          IF state \in {"COLLECT_LOAN", "COLLECT_TENURE"} THEN NoNumber ELSE 36,
          NoNumber, DEFAULT_RATE)

\* requests for a lower rate without a number, or with one below 5
RateRequests == {ULowerRate, URateNoise}

InitRate ==
  /\ conversation_state \in {"COLLECT_LOAN", "COLLECT_TENURE",
                             "ASK_SALARY_OPTION", "COLLECT_SALARY"}
  /\ collected_data \in { EnteredData(conversation_state, ph) :
                             ph \in {PhoneA, PhoneB, PhoneC} }
  /\ latest_status = "None"
  /\ latest_payload = NoDict
  /\ phone_retry_count = 0
  /\ chat_tail = <<>>
  /\ turn = TurnOf("start", NoMessage, Session, <<>>)
  /\ run_log = <<>>
  /\ rate_asks = 0
  /\ uw_context = NoDict
  /\ uw_result = NoDict

\* handle_user_message on one more rate request
RateAsk ==
  /\ rate_asks < MaxAsks
  /\ \E m \in RateRequests :
       InstallSession(TurnKind(Session, m), m, handle_user_message(Session, m))
  /\ rate_asks' = rate_asks + 1

NextRate == RateAsk

SpecRate == InitRate /\ [][NextRate]_vars

\* -------------------------------------------------------------------------
\* A user who answers every prompt with an input the current state accepts
\* and that carries no negotiation intent, starting from a session that a
\* conversation has brought to any state before the decision: any customer,
\* the rate at the base or negotiated down to the tier floor, the amount as
\* entered or negotiated down, and, in COLLECT_SALARY, either an affirmative
\* answer or a run asking for the salary behind it.
\* -------------------------------------------------------------------------
LivePhones == {PhoneA, PhoneB, PhoneC}
LiveAmounts == {500000, 6000000, 40000000, 70000000}
\* the base rate, or the tier floor of the customer once negotiated down
LiveRate(phone, negotiated) ==
  IF negotiated THEN compute_best_rate(crm_get_customer_by_phone(phone))
  ELSE DEFAULT_RATE

LiveData(phone, amount, tenure, negotiated) ==
  RunData(phone, amount, tenure, NoNumber, LiveRate(phone, negotiated))

LiveSession(state, data, status, payload) ==
  [state |-> state, data |-> data, status |-> status, payload |-> payload]

\* the customers and amounts for which a run without a salary asks for it
SalaryBandCases == {<<PhoneA, 70000000>>, <<PhoneC, 40000000>>}

\* sessions in COLLECT_SALARY behind a run that returned REQUIRE_SALARY; the
\* amount and the rate may have been negotiated down since the run
AskedForSalary ==
  { LiveSession("COLLECT_SALARY",
                LiveData(c[1], IF f[1] THEN 500000 ELSE c[2], 36, f[2] \/ f[3]),
                "REQUIRE_SALARY",
                [message |-> "Please upload/provide salary to proceed",
                 emi |-> compute_emi(c[2], LiveRate(c[1], f[2]), 36)]) :
      c \in SalaryBandCases, f \in BOOLEAN \X BOOLEAN \X BOOLEAN }

LiveSessions ==
  { LiveSession("COLLECT_PHONE", reset_conversation.data, "None", NoDict) }
  \cup { LiveSession("COLLECT_LOAN", LiveData(ph, NoNumber, NoNumber, neg),
                     "None", NoDict) :
           ph \in LivePhones, neg \in BOOLEAN }
  \cup { LiveSession("COLLECT_TENURE", LiveData(ph, am, NoNumber, neg),
                     "None", NoDict) :
           ph \in LivePhones, am \in LiveAmounts, neg \in BOOLEAN }
  \cup { LiveSession(st, LiveData(ph, am, 36, neg), "None", NoDict) :
           st \in {"ASK_SALARY_OPTION", "COLLECT_SALARY"},
           ph \in LivePhones, am \in LiveAmounts, neg \in BOOLEAN }
  \cup AskedForSalary

InitLive ==
  /\ \E s \in LiveSessions :
       /\ conversation_state = s.state
       /\ collected_data = s.data
       /\ latest_status = s.status
       /\ latest_payload = s.payload
  /\ phone_retry_count = 0
  /\ chat_tail = <<>>
  /\ turn = TurnOf("start", NoMessage, Session, <<>>)
  /\ run_log = IF latest_status = "None" THEN <<>> ELSE <<latest_status>>
  /\ rate_asks = 0
  /\ uw_context = NoDict
  /\ uw_result = NoDict

ValidFor(state, m) ==
  /\ ~IsRestart(m)
  /\ ~wants_lower_rate(m)
  /\ ~wants_amount_adjustment(m)
  /\ IF state = "COLLECT_PHONE"
     THEN /\ Len(DigitsOf(m.toks)) >= 10
          /\ crm_get_customer_by_phone(LastTen(DigitsOf(m.toks))) # NoDict
     ELSE IF state = "COLLECT_LOAN"
     THEN /\ extract_number(m) # NoNumber
          /\ extract_number(m) >= MIN_LOAN * Scale
     ELSE IF state = "COLLECT_TENURE"
     THEN /\ parse_tenure(m) # NoNumber
          /\ parse_tenure(m) >= MIN_TENURE
          /\ parse_tenure(m) <= MAX_TENURE
     ELSE IF state = "ASK_SALARY_OPTION"
     THEN is_positive_response(m) \/ is_negative_response(m)
     ELSE IF state = "COLLECT_SALARY"
     THEN extract_number(m) # NoNumber /\ extract_number(m) > 0
     ELSE FALSE

\* handle_user_message on a valid answer to the current prompt
ValidAnswer ==
  \E m \in Utterances :
    /\ ValidFor(conversation_state, m)
    /\ Install("answer", m, handle_user_message(Session, m))

NextLive == ValidAnswer

\* every prompt before the decision has a valid answer, so ValidAnswer is
\* enabled exactly in the states other than DONE
CanAnswer ==
  (conversation_state # "DONE") =>
    \E m \in Utterances : ValidFor(conversation_state, m)

\* the user keeps answering: weak fairness of ValidAnswer, WF_vars(ValidAnswer),
\* written with its enabling condition spelled out as the state predicate above
KeepsAnswering ==
  []<>(conversation_state = "DONE") \/ []<><<ValidAnswer>>_vars

SpecLive == InitLive /\ [][NextLive]_vars /\ KeepsAnswering

\* -------------------------------------------------------------------------
\* Properties of the session
\* -------------------------------------------------------------------------
\* the last step was a reset (restart token, sidebar button, session start)
ResetTurn == turn.kind \in {"restart", "button", "start"}
\* the Negotiation Resolver acted on the rate intent / on the amount intent
RateNegotiation == turn.kind = "negotiation" /\ wants_lower_rate(turn.msg)
AmountNegotiation == turn.kind = "negotiation" /\ ~wants_lower_rate(turn.msg)

Rate == collected_data.annual_rate_pct
PrevRate == turn.data.annual_rate_pct
HasAmount == Has(collected_data, "loan_amount")
HadAmount == Has(turn.data, "loan_amount")
KnownPhone(phone) == \E i \in 1..Len(Customers) : Customers[i].phone = phone

\* the tier floors as the specification states them, in hundredths of a percent
TierFloor(score) ==
  IF score >= 800 THEN 975
  ELSE IF score >= 760 THEN 1025
  ELSE IF score >= 720 THEN 1075
  ELSE IF score >= 680 THEN 1125
  ELSE 1175

\* the turn handled an utterance that is not a restart token
UtteranceTurn == turn.kind \in {"negotiation", "dispatch"}

\* the session fields other than the conversation state are as before the turn
SameRecord ==
  /\ collected_data = turn.data
  /\ latest_status = turn.status
  /\ latest_payload = turn.payload

\* C5: between two resets no turn increases annual_rate_pct, and a
\* rate-reduction negotiation never leaves it below the tier floor of the
\* verified profile's credit score, with or without a requested number.
C5_RateOnlyLowersToFloor ==
  ~ResetTurn
    => /\ Rate <= PrevRate
       /\ RateNegotiation
          => Rate >= TierFloor(collected_data.customer_profile.credit_score)

\* a request for a numeric rate below the floor, answered with the floor
C5_Witness ==
  /\ RateNegotiation
  /\ Truthy(extract_number(turn.msg))
  /\ extract_number(turn.msg) < TierFloor(collected_data.customer_profile.credit_score)
  /\ Rate = TierFloor(collected_data.customer_profile.credit_score)
  /\ Rate < PrevRate

\* C6 as stated: an amount-adjustment negotiation declines a parsed amount >=
\* the current one and otherwise sets loan_amount to exactly the parsed
\* amount; no other turn than a COLLECT_LOAN entry raises loan_amount.
C6_AsStated ==
  /\ AmountNegotiation
     => IF extract_number(turn.msg) >= turn.data.loan_amount
        THEN collected_data.loan_amount = turn.data.loan_amount
        ELSE collected_data.loan_amount = extract_number(turn.msg)
  /\ (HadAmount /\ HasAmount /\ collected_data.loan_amount > turn.data.loan_amount)
     => turn.kind = "dispatch" /\ turn.state = "COLLECT_LOAN"

\* C6 amended: an amount-adjustment negotiation never increases loan_amount:
\* in DONE, or when the parsed amount is 0 or >= the current amount,
\* loan_amount is unchanged; a positive smaller amount outside DONE becomes
\* loan_amount exactly.  No other turn than a COLLECT_LOAN entry raises a
\* loan_amount that is set.
C6_AmountNeverRaised ==
  /\ AmountNegotiation
     => IF \/ turn.state = "DONE"
           \/ extract_number(turn.msg) = 0
           \/ extract_number(turn.msg) >= turn.data.loan_amount
        THEN collected_data.loan_amount = turn.data.loan_amount
        ELSE collected_data.loan_amount = extract_number(turn.msg)
  /\ (HadAmount /\ HasAmount /\ collected_data.loan_amount > turn.data.loan_amount)
     => turn.kind = "dispatch" /\ turn.state = "COLLECT_LOAN"

\* a request for a larger amount, declined
C6_Witness ==
  /\ AmountNegotiation
  /\ turn.state # "DONE"
  /\ extract_number(turn.msg) > turn.data.loan_amount
  /\ collected_data.loan_amount = turn.data.loan_amount
  /\ chat_tail = <<"keep_current_ask">>

\* C7: a loan_amount that is set is at least MIN_LOAN.
C7_AmountAtLeastMinimum ==
  HasAmount => collected_data.loan_amount >= MIN_LOAN * Scale

\* C8: a customer_phone on file is a phone the Data Provider knows; an
\* utterance in COLLECT_PHONE whose last 10 digits are an unknown phone leaves
\* the state COLLECT_PHONE with no phone, name or profile on file.
C8_PhoneOnlyIfVerified ==
  /\ Has(collected_data, "customer_phone")
     => KnownPhone(collected_data.customer_phone)
  /\ (/\ turn.kind = "dispatch"
      /\ turn.state = "COLLECT_PHONE"
      /\ Len(DigitsOf(turn.msg.toks)) >= 10
      /\ ~KnownPhone(LastTen(DigitsOf(turn.msg.toks))))
     => /\ conversation_state = "COLLECT_PHONE"
        /\ ~Has(collected_data, "customer_phone")
        /\ ~Has(collected_data, "customer_name")
        /\ collected_data.customer_profile = NoDict

\* an unknown 10-digit phone was submitted and refused
C8_Witness ==
  /\ turn.kind = "dispatch"
  /\ turn.state = "COLLECT_PHONE"
  /\ Len(DigitsOf(turn.msg.toks)) >= 10
  /\ ~KnownPhone(LastTen(DigitsOf(turn.msg.toks)))
  /\ chat_tail = <<"verifying_phone", "customer_not_found">>
  /\ conversation_state = "COLLECT_PHONE"

\* C9: an EMI held in the latest pipeline payload is the EMI of the current
\* loan_amount, annual_rate_pct and tenure_months.
C9_HeldEmiIsCurrent ==
  (latest_payload # NoDict /\ Has(latest_payload, "emi"))
    => latest_payload.emi =
         compute_emi(collected_data.loan_amount, collected_data.annual_rate_pct,
                     collected_data.tenure_months)

\* C10: an utterance that is a reserved token, whatever its case and
\* surrounding whitespace, re-initialises the session from any state.
ReservedToken(m) ==
  m.toks \in {<<W("restart")>>, <<W("reset")>>, <<W("start"), W("over")>>,
              <<W("new")>>}

C10_RestartReinitialises ==
  ReservedToken(turn.msg)
    => /\ conversation_state = "COLLECT_PHONE"
       /\ collected_data = [annual_rate_pct |-> 12 * Scale,
                            customer_profile |-> NoDict]
       /\ latest_status = "None"
       /\ latest_payload = NoDict
       /\ phone_retry_count = 0

\* an upper-case, padded token typed in DONE, where a rate negotiation would
\* otherwise answer, with a decision on file
C10_Witness ==
  /\ ReservedToken(turn.msg)
  /\ turn.msg.caps /\ turn.msg.pad
  /\ turn.state = "DONE"
  /\ turn.status = "APPROVED"
  /\ Has(turn.data, "monthly_salary")
  /\ turn.data.annual_rate_pct < 12 * Scale
  /\ conversation_state = "COLLECT_PHONE"

\* the pipeline invocations of the turn; the last one, and whether the
\* orchestration ran in it (no required field was missing)
Ran == turn.runs # <<>> /\ turn.runs[Len(turn.runs)].missing = <<>>
LastRun == turn.runs[Len(turn.runs)]

\* the state each returned status dictates
StateFor(status) ==
  IF status = "KYC_FAILED" THEN "COLLECT_PHONE"
  ELSE IF status = "REQUIRE_SALARY" THEN "COLLECT_SALARY"
  ELSE "DONE"

\* the Negotiation Resolver took a positive amount below the current one
LoweringRequest ==
  /\ AmountNegotiation
  /\ turn.state # "DONE"
  /\ 0 < extract_number(turn.msg)
  /\ extract_number(turn.msg) < turn.data.loan_amount

\* the position of a state in the order COLLECT_PHONE, COLLECT_LOAN,
\* COLLECT_TENURE, ASK_SALARY_OPTION, {COLLECT_SALARY | READY_TO_RUN}, DONE
Rank(state) ==
  IF state = "COLLECT_PHONE" THEN 0
  ELSE IF state = "COLLECT_LOAN" THEN 1
  ELSE IF state = "COLLECT_TENURE" THEN 2
  ELSE IF state = "ASK_SALARY_OPTION" THEN 3
  ELSE IF state \in {"COLLECT_SALARY", "READY_TO_RUN"} THEN 4
  ELSE 5

\* the turn is neither a restart nor a run that ended in the KYC_FAILED reset
OrdinaryTurn ==
  UtteranceTurn /\ ~(Ran /\ LastRun.status = "KYC_FAILED")
EntersSalary ==
  conversation_state = "COLLECT_SALARY" /\ turn.state # "COLLECT_SALARY"

\* the session as the utterance of the turn found it
PrevSession ==
  [state |-> turn.state, data |-> turn.data, status |-> turn.status,
   payload |-> turn.payload, retry |-> turn.retry, out |-> <<>>, runs |-> <<>>]

\* the required fields that are not in a collected_data, in the order listed
RequiredMissing(data) ==
  SelectSeq(<<"customer_phone", "loan_amount", "tenure_months">>,
            LAMBDA field : ~Has(data, field))

\* numeric input that a collecting state does not accept
InvalidAmount(m) ==
  extract_number(m) = NoNumber \/ extract_number(m) < MIN_LOAN * Scale
InvalidTenure(m) ==
  \/ parse_tenure(m) = NoNumber
  \/ parse_tenure(m) < MIN_TENURE
  \/ parse_tenure(m) > MAX_TENURE
InvalidSalary(m) ==
  extract_number(m) = NoNumber \/ extract_number(m) <= 0

\* the turn changed neither the state, nor the field, nor the latest status
Held(field) ==
  /\ conversation_state = turn.state
  /\ GetNum(collected_data, field) = GetNum(turn.data, field)
  /\ latest_status = turn.status

\* C11: a non-restart utterance received in DONE, negotiation intents
\* included, leaves the state DONE and the collected data and the latest
\* status and payload as they were, and invokes no pipeline; DONE is left
\* only by a restart (a reserved token or the reset button).
C11_DoneFrozen ==
  /\ (turn.state = "DONE" /\ UtteranceTurn)
     => /\ conversation_state = "DONE"
        /\ SameRecord
        /\ turn.runs = <<>>
  /\ (turn.state = "DONE" /\ conversation_state # "DONE")
     => turn.kind \in {"restart", "button"}

\* a rate reduction asked on an approved ticket whose rate is above the floor
C11_Witness ==
  /\ turn.state = "DONE"
  /\ RateNegotiation
  /\ turn.status = "APPROVED"
  /\ PrevRate > TierFloor(turn.data.customer_profile.credit_score)
  /\ chat_tail = <<"restart_to_revisit_rate">>
  /\ conversation_state = "DONE"

\* C12: after a pipeline run the latest status and payload are the returned
\* ones and the state is the one the status dictates: REJECT and APPROVED
\* give DONE, REQUIRE_SALARY gives COLLECT_SALARY, KYC_FAILED gives
\* COLLECT_PHONE with customer_phone and customer_name removed and
\* customer_profile cleared.
C12_StateFollowsStatus ==
  Ran => /\ latest_status = LastRun.status
         /\ latest_payload = LastRun.payload
         /\ LastRun.status \in {"REJECT", "APPROVED", "REQUIRE_SALARY", "KYC_FAILED"}
         /\ conversation_state = StateFor(LastRun.status)
         /\ LastRun.status = "KYC_FAILED"
            => /\ ~Has(collected_data, "customer_phone")
               /\ ~Has(collected_data, "customer_name")
               /\ collected_data.customer_profile = NoDict

\* a run whose re-check does not find the phone that is on file
C12_Witness ==
  /\ Ran
  /\ LastRun.status = "KYC_FAILED"
  /\ Has(turn.data, "customer_phone")
  /\ turn.data.customer_profile # NoDict
  /\ conversation_state = "COLLECT_PHONE"

\* C13: an amount-adjustment negotiation that lowers loan_amount in
\* READY_TO_RUN invokes the pipeline once in the same turn, with the revised
\* amount and the rate, tenure and salary on file, and the turn ends in the
\* state that run's status dictates (in READY_TO_RUN if the run found a
\* required field missing).
C13_LoweredAmountRerun ==
  (LoweringRequest /\ turn.state = "READY_TO_RUN")
    => /\ collected_data.loan_amount = extract_number(turn.msg)
       /\ Len(turn.runs) = 1
       /\ LastRun.pre_state = "READY_TO_RUN"
       /\ IF Ran
          THEN /\ LastRun.context.loan_amount = extract_number(turn.msg)
               /\ LastRun.context.annual_rate_pct = turn.data.annual_rate_pct
               /\ LastRun.context.tenure_months = turn.data.tenure_months
               /\ GetNum(LastRun.context, "monthly_salary")
                    = GetNum(turn.data, "monthly_salary")
               /\ latest_status = LastRun.status
               /\ conversation_state = StateFor(LastRun.status)
          ELSE conversation_state = "READY_TO_RUN"

\* an amount above twice the limit, lowered into the salary band and approved
C13_Witness ==
  /\ LoweringRequest
  /\ turn.state = "READY_TO_RUN"
  /\ turn.data.loan_amount > 2 * turn.data.customer_profile.pre_approved_limit * Scale
  /\ Has(turn.data, "monthly_salary")
  /\ Ran
  /\ LastRun.context.loan_amount = extract_number(turn.msg)
  /\ LastRun.status = "APPROVED"
  /\ conversation_state = "DONE"

\* C14 as stated: apart from restart and the KYC_FAILED reset every turn keeps
\* the state or moves it later in the order, and COLLECT_SALARY is entered
\* only from ASK_SALARY_OPTION on an affirmative answer.
C14_AsStated ==
  OrdinaryTurn
    => /\ Rank(conversation_state) >= Rank(turn.state)
       /\ EntersSalary
          => /\ turn.state = "ASK_SALARY_OPTION"
             /\ is_positive_response(turn.msg)

\* C14 amended: apart from restart and the KYC_FAILED reset every turn keeps
\* the state or moves it later in the order, and COLLECT_SALARY is entered
\* only on an affirmative answer in ASK_SALARY_OPTION or by a pipeline run of
\* the turn that returns REQUIRE_SALARY.
C14_StateOnlyAdvances ==
  OrdinaryTurn
    => /\ Rank(conversation_state) >= Rank(turn.state)
       /\ EntersSalary
          => \/ /\ turn.state = "ASK_SALARY_OPTION"
                /\ is_positive_response(turn.msg)
             \/ /\ Ran
                /\ LastRun.status = "REQUIRE_SALARY"

\* the salary was declined in ASK_SALARY_OPTION and the run asks for it
C14_Witness ==
  /\ turn.kind = "dispatch"
  /\ turn.state = "ASK_SALARY_OPTION"
  /\ is_negative_response(turn.msg)
  /\ ~is_positive_response(turn.msg)
  /\ Ran
  /\ LastRun.status = "REQUIRE_SALARY"
  /\ conversation_state = "COLLECT_SALARY"

\* C15: a pipeline run renders the sanction letter exactly when its
\* underwriting decision is APPROVE_INSTANT, never on KYC_FAILED, REJECT or
\* REQUIRE_SALARY; the letter carries the phone, loan_amount, tenure_months
\* and annual_rate_pct that were underwritten and the EMI the Underwriting
\* Engine returned, and the run returns APPROVED with that EMI.
C15_LetterIffApproved ==
  Ran
    => /\ LastRun.letter # NoDict
          <=> /\ LastRun.underwritten # NoDict
              /\ LastRun.underwritten.uw.decision = "APPROVE_INSTANT"
       /\ LastRun.status \in {"KYC_FAILED", "REJECT", "REQUIRE_SALARY"}
          => LastRun.letter = NoDict
       /\ LastRun.letter # NoDict
          => /\ LastRun.letter.phone = LastRun.underwritten.context.customer_phone
             /\ LastRun.letter.loan_amount = LastRun.underwritten.context.loan_amount
             /\ LastRun.letter.tenure_months
                  = LastRun.underwritten.context.tenure_months
             /\ LastRun.letter.annual_rate_pct
                  = LastRun.underwritten.context.annual_rate_pct
             /\ LastRun.letter.emi = LastRun.underwritten.uw.emi
             /\ LastRun.status = "APPROVED"
             /\ LastRun.payload.emi = LastRun.underwritten.uw.emi

\* an approval in the salary band at a negotiated rate, with its letter
C15_Witness ==
  /\ Ran
  /\ LastRun.status = "APPROVED"
  /\ LastRun.letter # NoDict
  /\ LastRun.letter.annual_rate_pct < DEFAULT_RATE
  /\ LastRun.letter.loan_amount > LastRun.underwritten.context.pre_approved_limit * Scale
  /\ LastRun.letter.emi > 0
  /\ LastRun.letter.emi = LastRun.payload.emi

\* C16: the Negotiation Resolver acts on at most one intent, rate first: an
\* utterance with the rate-reduction intent leaves loan_amount unchanged, and
\* when the resolver acts on it nothing but annual_rate_pct changes, even if
\* the utterance has the amount-adjustment intent too; an utterance with
\* neither intent is left to the state dispatch, the resolver changing
\* nothing.
C16_OneIntentRateFirst ==
  /\ (UtteranceTurn /\ wants_lower_rate(turn.msg))
     => GetNum(collected_data, "loan_amount") = GetNum(turn.data, "loan_amount")
  /\ RateNegotiation
     => /\ Pop(collected_data, "annual_rate_pct") = Pop(turn.data, "annual_rate_pct")
        /\ conversation_state = turn.state
        /\ latest_status = turn.status
        /\ latest_payload = turn.payload
        /\ turn.runs = <<>>
  /\ (/\ UtteranceTurn
      /\ ~wants_lower_rate(turn.msg)
      /\ ~wants_amount_adjustment(turn.msg))
     => /\ turn.kind = "dispatch"
        /\ try_handle_negotiation(PrevSession, turn.msg, turn.state)
             = NotHandled(PrevSession)

\* one utterance asking for a lower rate and for a smaller amount
C16_Witness ==
  /\ RateNegotiation
  /\ wants_amount_adjustment(turn.msg)
  /\ turn.state # "DONE"
  /\ HadAmount
  /\ 0 < extract_number(turn.msg)
  /\ extract_number(turn.msg) < turn.data.loan_amount
  /\ collected_data.loan_amount = turn.data.loan_amount

\* C17: while no customer_phone is on file the Negotiation Resolver does not
\* act: whatever the utterance, rate and amount intents included, it changes
\* nothing, annual_rate_pct and loan_amount stay as they were and the state
\* dispatch handles the utterance; an utterance received in COLLECT_PHONE
\* finds and leaves the rate at the base rate.
C17_NoPhoneNoNegotiation ==
  /\ (UtteranceTurn /\ ~Has(turn.data, "customer_phone"))
     => /\ turn.kind = "dispatch"
        /\ try_handle_negotiation(PrevSession, turn.msg, turn.state)
             = NotHandled(PrevSession)
        /\ Rate = PrevRate
        /\ GetNum(collected_data, "loan_amount") = GetNum(turn.data, "loan_amount")
  /\ (UtteranceTurn /\ turn.state = "COLLECT_PHONE")
     => /\ PrevRate = DEFAULT_RATE
        /\ Rate = DEFAULT_RATE

\* a lower rate asked for before any phone was given
C17_Witness ==
  /\ turn.kind = "dispatch"
  /\ turn.state = "COLLECT_PHONE"
  /\ ~Has(turn.data, "customer_phone")
  /\ wants_lower_rate(turn.msg)
  /\ Rate = DEFAULT_RATE
  /\ conversation_state = "COLLECT_PHONE"

\* C18: a pipeline invocation that finds customer_phone, loan_amount or
\* tenure_months missing does not orchestrate (no verification, underwriting
\* or rendering): it lists exactly the missing fields in a message and
\* leaves the conversation state, the collected data and the latest status
\* and payload as the invocation found them.
C18_MissingFieldsNoRun ==
  (turn.runs # <<>> /\ RequiredMissing(turn.data) # <<>>)
    => /\ Len(turn.runs) = 1
       /\ LastRun.missing = RequiredMissing(turn.data)
       /\ LastRun.context = NoDict
       /\ LastRun.status = "None"
       /\ LastRun.underwritten = NoDict
       /\ LastRun.letter = NoDict
       /\ chat_tail[Len(chat_tail)] = "still_need_fields"
       /\ conversation_state = LastRun.pre_state
       /\ latest_status = turn.status
       /\ latest_payload = turn.payload
       /\ turn.kind = "dispatch" => collected_data = turn.data
       /\ Pop(collected_data, "loan_amount") = Pop(turn.data, "loan_amount")

\* an invocation without a tenure, with the result of an earlier run on file
C18_Witness ==
  /\ turn.kind = "dispatch"
  /\ turn.state = "READY_TO_RUN"
  /\ turn.status = "REQUIRE_SALARY"
  /\ turn.runs # <<>>
  /\ LastRun.missing = <<"tenure_months">>
  /\ conversation_state = "READY_TO_RUN"
  /\ latest_status = "REQUIRE_SALARY"

\* C19: in COLLECT_LOAN, COLLECT_TENURE and COLLECT_SALARY an utterance
\* without a number, or with an amount below the minimum, a tenure that is
\* not positive or outside [6, 84], a salary that is not positive, neither
\* advances the state nor sets the field of the state, and no status is
\* recorded; when the state dispatch handles it the turn is a re-prompt.
C19_InvalidNumberReprompts ==
  /\ (UtteranceTurn /\ turn.state = "COLLECT_LOAN" /\ InvalidAmount(turn.msg))
     => /\ Held("loan_amount")
        /\ turn.kind = "dispatch"
           => chat_tail \in {<<"specify_loan_amount">>, <<"minimum_loan_amount">>}
  /\ (UtteranceTurn /\ turn.state = "COLLECT_TENURE" /\ InvalidTenure(turn.msg))
     => /\ Held("tenure_months")
        /\ turn.kind = "dispatch"
           => chat_tail \in {<<"share_tenure">>, <<"tenure_out_of_range">>}
  /\ (UtteranceTurn /\ turn.state = "COLLECT_SALARY" /\ InvalidSalary(turn.msg))
     => /\ Held("monthly_salary")
        /\ turn.kind = "dispatch" => chat_tail = <<"salary_numeric">>

\* a tenure above the maximum, answered with the bounds
C19_Witness ==
  /\ turn.kind = "dispatch"
  /\ turn.state = "COLLECT_TENURE"
  /\ parse_tenure(turn.msg) > MAX_TENURE
  /\ chat_tail = <<"tenure_out_of_range">>
  /\ conversation_state = "COLLECT_TENURE"
  /\ ~Has(collected_data, "tenure_months")

\* C20: an amount-adjustment negotiation that lowers loan_amount in
\* COLLECT_LOAN, COLLECT_TENURE, ASK_SALARY_OPTION or COLLECT_SALARY changes
\* loan_amount only: the state, every other collected field and the latest
\* status and payload are as before, and no pipeline is invoked in the turn.
C20_EarlyLoweringOnlyAmount ==
  (/\ LoweringRequest
   /\ turn.state \in {"COLLECT_LOAN", "COLLECT_TENURE", "ASK_SALARY_OPTION",
                       "COLLECT_SALARY"})
    => /\ collected_data.loan_amount = extract_number(turn.msg)
       /\ Pop(collected_data, "loan_amount") = Pop(turn.data, "loan_amount")
       /\ conversation_state = turn.state
       /\ latest_status = turn.status
       /\ latest_payload = turn.payload
       /\ turn.runs = <<>>

\* the amount is lowered while a run's request for the salary is on file
C20_Witness ==
  /\ LoweringRequest
  /\ turn.state = "COLLECT_SALARY"
  /\ turn.status = "REQUIRE_SALARY"
  /\ collected_data.loan_amount < turn.data.loan_amount
  /\ latest_payload = turn.payload
  /\ conversation_state = "COLLECT_SALARY"
  /\ chat_tail = <<"reshape_request">>

\* an utterance the COLLECT_PHONE dispatch handled, and the digits in it
PhoneTurn == turn.kind = "dispatch" /\ turn.state = "COLLECT_PHONE"
TurnDigits == DigitsOf(turn.msg.toks)
\* a failed phone entry: no digits and neither greeting nor negative, or
\* fewer than 10 digits
FailedEntry ==
  /\ PhoneTurn
  /\ IF TurnDigits = <<>>
     THEN ~is_greeting(turn.msg) /\ ~is_negative_response(turn.msg)
     ELSE Len(TurnDigits) < 10
LastShown == chat_tail[Len(chat_tail)]

C21_Counter ==
  /\ FailedEntry
     => /\ LastShown = PHONE_PROMPTS[(turn.retry % 3) + 1]
        /\ phone_retry_count = turn.retry + 1
  /\ (PhoneTurn /\ (Len(TurnDigits) >= 10
                     \/ (TurnDigits = <<>> /\ is_greeting(turn.msg))))
     => phone_retry_count = 0
  /\ (/\ PhoneTurn
      /\ TurnDigits = <<>>
      /\ ~is_greeting(turn.msg)
      /\ is_negative_response(turn.msg))
     => phone_retry_count = turn.retry

C21_Consecutive ==
  (FailedEntry /\ FailedEntry') => LastShown' # LastShown

\* C21: a failed phone entry in COLLECT_PHONE is answered with variant
\* (retry counter mod 3) of the fixed list and advances the counter by one; a
\* greeting or a submission of 10 or more digits resets the counter to 0 and a
\* negative response leaves it as it is; failed entries in two consecutive
\* turns are never answered with the same variant.
C21_RotatedPrompts == [](C21_Counter) /\ [][C21_Consecutive]_vars

\* the fourth failed entry in a row comes back to the first variant
C21_Witness ==
  /\ FailedEntry
  /\ turn.retry = 3
  /\ Len(TurnDigits) \in 1..9
  /\ chat_tail = <<"digits_missing", PHONE_PROMPTS[1]>>
  /\ phone_retry_count = 4

\* the bureau score and the pre-approved limit of the phone on file
ScoreOnFile == credit_bureau_get_score(collected_data.customer_phone)
LimitOnFile == offer_mart_get_preapproved_limit(collected_data.customer_phone)
\* the EMI of the amount, rate and tenure on file
EmiOnFile ==
  compute_emi(collected_data.loan_amount, collected_data.annual_rate_pct,
              collected_data.tenure_months)

\* C22: whenever the latest status is APPROVED the state is DONE and the
\* fields on file satisfy the underwriting policy: the score of the phone is
\* at least 700 and either loan_amount <= the pre-approved limit, or
\* loan_amount <= twice the limit with a positive monthly_salary declared and
\* the EMI of the amount, rate and tenure on file at most half that salary.
C22_ApprovalSound ==
  latest_status = "APPROVED"
    => /\ conversation_state = "DONE"
       /\ ScoreOnFile >= 700
       /\ \/ collected_data.loan_amount <= LimitOnFile * Scale
          \/ /\ collected_data.loan_amount <= 2 * LimitOnFile * Scale
             /\ Has(collected_data, "monthly_salary")
             /\ collected_data.monthly_salary > 0
             /\ 2 * EmiOnFile <= collected_data.monthly_salary

\* an approval in the salary band, after the rate was negotiated down
C22_Witness ==
  /\ latest_status = "APPROVED"
  /\ collected_data.loan_amount > LimitOnFile * Scale
  /\ Has(collected_data, "monthly_salary")
  /\ Rate < DEFAULT_RATE
  /\ latest_payload.emi = EmiOnFile
  /\ conversation_state = "DONE"

\* the state dispatch of the turn set READY_TO_RUN: a negative answer in
\* ASK_SALARY_OPTION or a positive salary in COLLECT_SALARY
SetsReady ==
  /\ turn.kind = "dispatch"
  /\ \/ /\ turn.state = "ASK_SALARY_OPTION"
        /\ ~is_positive_response(turn.msg)
        /\ is_negative_response(turn.msg)
     \/ /\ turn.state = "COLLECT_SALARY"
        /\ ~InvalidSalary(turn.msg)

\* C23: no turn ends, and so none starts, in READY_TO_RUN: a turn that sets
\* READY_TO_RUN invokes the pipeline once in the same turn, with every
\* required field on file, and ends in COLLECT_SALARY or DONE; the pipeline
\* is invoked by no other turn.
C23_ReadyNeverRests ==
  /\ conversation_state # "READY_TO_RUN"
  /\ turn.state # "READY_TO_RUN"
  /\ SetsReady <=> turn.runs # <<>>
  /\ turn.runs # <<>>
     => /\ Len(turn.runs) = 1
        /\ LastRun.pre_state = "READY_TO_RUN"
        /\ LastRun.missing = <<>>
        /\ RequiredMissing(turn.data) = <<>>
        /\ conversation_state \in {"COLLECT_SALARY", "DONE"}

\* a salary given in COLLECT_SALARY, run at once and decided
C23_Witness ==
  /\ SetsReady
  /\ turn.state = "COLLECT_SALARY"
  /\ Ran
  /\ LastRun.pre_state = "READY_TO_RUN"
  /\ Has(LastRun.context, "monthly_salary")
  /\ conversation_state = "DONE"

\* C24: at every turn boundary the fields on file match the state: no
\* customer_phone in COLLECT_PHONE; customer_phone, customer_name and a
\* non-empty customer_profile in every later state; a positive loan_amount
\* from COLLECT_TENURE on; a tenure_months within [6, 84] from
\* ASK_SALARY_OPTION on; a monthly_salary, whenever set, positive.
C24_FieldsMatchState ==
  /\ conversation_state = "COLLECT_PHONE"
     => ~Has(collected_data, "customer_phone")
  /\ conversation_state # "COLLECT_PHONE"
     => /\ Has(collected_data, "customer_phone")
        /\ Has(collected_data, "customer_name")
        /\ Has(collected_data, "customer_profile")
        /\ collected_data.customer_profile # NoDict
  /\ Rank(conversation_state) >= Rank("COLLECT_TENURE")
     => /\ Has(collected_data, "loan_amount")
        /\ collected_data.loan_amount > 0
  /\ Rank(conversation_state) >= Rank("ASK_SALARY_OPTION")
     => /\ Has(collected_data, "tenure_months")
        /\ collected_data.tenure_months >= MIN_TENURE
        /\ collected_data.tenure_months <= MAX_TENURE
  /\ Has(collected_data, "monthly_salary")
     => collected_data.monthly_salary > 0

\* a decided session whose amount a negotiation had lowered below the
\* minimum entry amount, with a salary on file
C24_Witness ==
  /\ conversation_state = "DONE"
  /\ Has(collected_data, "monthly_salary")
  /\ collected_data.loan_amount > 0
  /\ collected_data.loan_amount < MIN_LOAN * Scale
  /\ collected_data.tenure_months \in MIN_TENURE..MAX_TENURE
  /\ collected_data.customer_profile # NoDict

\* C25: between two resets the pipeline orchestrates at most twice and
\* returns either one APPROVED or REJECT, or REQUIRE_SALARY and then at most
\* one APPROVED or REJECT; REQUIRE_SALARY is returned only to a run without
\* a declared salary, KYC_FAILED is never returned, and a run made with a
\* monthly_salary on file ends in DONE.
C25_RunsPerSession ==
  /\ run_log \in {<<>>, <<"APPROVED">>, <<"REJECT">>, <<"REQUIRE_SALARY">>,
                   <<"REQUIRE_SALARY", "APPROVED">>,
                   <<"REQUIRE_SALARY", "REJECT">>}
  /\ Ran
     => /\ LastRun.status # "KYC_FAILED"
        /\ LastRun.status = "REQUIRE_SALARY"
           => ~Has(LastRun.context, "monthly_salary")
        /\ Has(LastRun.context, "monthly_salary")
           => conversation_state = "DONE"

\* the salary was asked for by the first run and the second run approved
C25_Witness ==
  /\ run_log = <<"REQUIRE_SALARY", "APPROVED">>
  /\ Ran
  /\ turn.status = "REQUIRE_SALARY"
  /\ Has(LastRun.context, "monthly_salary")
  /\ conversation_state = "DONE"

\* C26: with a verified profile, outside DONE, a rate request that states no
\* rate (or a number below 5) lowers annual_rate_pct by half a point, clamped
\* at the tier floor of the profile; from the base rate the floor is reached
\* after at most 5 such requests, and a request made at the floor leaves the
\* rate unchanged.
C26_HalfPointSteps ==
  /\ rate_asks > 0
     => /\ RateNegotiation
        /\ Rate = Max(TierFloor(collected_data.customer_profile.credit_score),
                      PrevRate - 50)
  /\ rate_asks >= 5
     => Rate = TierFloor(collected_data.customer_profile.credit_score)
  /\ (rate_asks > 0
      /\ PrevRate = TierFloor(collected_data.customer_profile.credit_score))
     => Rate = PrevRate

\* the sixth request in a row, made at the lowest floor, changes nothing
C26_Witness ==
  /\ rate_asks = 6
  /\ RateNegotiation
  /\ extract_number(turn.msg) = NoNumber
  /\ PrevRate = 975
  /\ Rate = 975
  /\ chat_tail = <<"already_at_rate">>

\* the user is answering the prompts; the session is decided
Answering == turn.kind = "answer"
Decided ==
  conversation_state = "DONE" /\ latest_status \in {"APPROVED", "REJECT"}
\* a valid answer moves the state later in the order
AnswerAdvances ==
  Answering => Rank(conversation_state) > Rank(turn.state)

\* C27: from every reachable state that is not DONE, a user who keeps
\* answering the current prompt with a valid input without negotiation
\* intent reaches DONE with the latest status APPROVED or REJECT; each answer
\* moves the state later in the order COLLECT_PHONE, COLLECT_LOAN,
\* COLLECT_TENURE, ASK_SALARY_OPTION, COLLECT_SALARY, DONE, so that DONE is
\* reached within five, hence at most six, answers from COLLECT_PHONE.
C27_Progress ==
  [](AnswerAdvances /\ CanAnswer) /\ ((conversation_state # "DONE") ~> Decided)

\* the salary the first run asked for is given and the session is decided
C27_Witness ==
  /\ Answering
  /\ turn.state = "COLLECT_SALARY"
  /\ turn.status = "REQUIRE_SALARY"
  /\ run_log = <<"REQUIRE_SALARY", latest_status>>
  /\ Decided

====
